---- MODULE Spec2Model ----
(***************************************************************************)
(* Flow control of the light-client protocol (package flowcontrol):        *)
(* ClientNode, the server's account of one client, and ServerNode, the     *)
(* client's estimate of one server.  One tracker object is constructed in  *)
(* Init and then driven by arbitrary calls of its exported methods.        *)
(*                                                                         *)
(* Scaling.  uint64 is modelled by 0..MaxUint64 with arithmetic modulo     *)
(* MaxUint64 + 1.  mclock.AbsTime readings are drawn from 0..MaxTime; one  *)
(* unit of the model's clock is a third of a millisecond, so that          *)
(* fcTimeConst (one millisecond) is 3 clock units and the truncation of    *)
(* the integer division by fcTimeConst is visible.                         *)
(***************************************************************************)
EXTENDS Integers, FiniteSets, Sequences, TLC

\* ------------------------------------------------------------- bounds
MaxUint64 == 15
Word == MaxUint64 + 1
MaxTime == 2
MaxQueued == 3
MaxClock == 14

\* ---------------------------------------------------------- constants
fcTimeConst == 3
safetyMargin == 3

Times == 0..MaxTime

\* inputs the calls are driven with
BufLimits == {Word \div 2, Word \div 2 + 1}
MinRecharges == {0, 2, 4, 8}
\* the rates a ServerNode is constructed with (its product of safetyMargin
\* and MinRecharge stays inside the word)
ServerMinRecharges == {0, 2, 4}
Costs == {1, Word \div 2, MaxUint64}
RealCosts == {0, 2}
MaxCosts == {1, Word \div 2}
RcValues == {0, 3, MaxUint64}
Bvs == {4, MaxUint64}
ReqIDs == {1, 2}

\* goroutines calling into one tracker
Threads == {1, 2}
NoCalls == [th \in Threads |-> [pc |-> "idle"]]
Unlocked == [writer |-> 0, readers |-> {}]

\* peers and services of the peer set
PeerIDs == {1, 2}
Notifiers == {1, 2}
NoPeerSet == [none |-> TRUE]
NoDelivery == [n \in Notifiers |-> [id \in PeerIDs |->
                  [held |-> FALSE, early |-> FALSE, twice |-> FALSE]]]

NoNode == [none |-> TRUE]
NoAnchor == [valid |-> FALSE]

Min(a, b) == IF a < b THEN a ELSE b
Max(a, b) == IF a > b THEN a ELSE b

VARIABLES
    params,      \* *ServerParams shared by the tracker: BufLimit, MinRecharge
    clientNode,  \* the ClientNode: bufValue, lastTime (NoNode when a ServerNode is modelled)
    serverNode,  \* the ServerNode: bufEstimate, lastTime, sumCost, pending
    last,        \* history: the last completed call, its arguments, clock reading and results
    later,       \* history: for each pending request, the exact total of the max costs queued after it
    nQueued,     \* history: number of QueueRequest calls so far
    anchor,      \* history: buffer and time at construction or at the last debit
    orderly,     \* history: every QueueRequest so far used an id that was not pending
                 \* and a maxCost within bufEstimate
    calls,       \* per goroutine, the call it is executing step by step: its position
                 \* and local variables (all idle where calls are taken as a whole)
    lock,        \* the tracker's lock field: the goroutine holding it for writing
                 \* (0: none) and the goroutines holding it for reading
    ps,          \* the peerSet: peers (the ids in the map), notifyList, closed
                 \* (NoPeerSet when a flow-control tracker is modelled)
    delivered    \* per notifier and peer, what the notifier was told: whether it
                 \* holds the peer as registered, and history: it was told
                 \* unregisterPeer for a peer it did not hold (early), registerPeer
                 \* for a peer it held (twice)

vars == <<params, clientNode, serverNode, last, later, nQueued, anchor, orderly,
          calls, lock, ps, delivered>>

\* the history variables
history == <<last, later, nQueued, anchor, orderly>>

\* history: the anchor after an operation that read the clock at time; mono
\* records that no reading since the anchor went backward
Observe(a, time, lastTime) ==
    IF a.valid THEN [a EXCEPT !.mono = @ /\ time >= lastTime] ELSE a

\* uint64 arithmetic
Add64(a, b) == (a + b) % Word
Sub64(a, b) == (a - b + Word) % Word
Mul64(a, b) == (a * b) % Word

\* int64(x) of a uint64 x, as time.Duration(x) does
Duration(x) == IF x > MaxUint64 \div 2 THEN x - Word ELSE x

\* ------------------------------------------------------ ClientNode
NewClientNode(p, now) == [bufValue |-> p.BufLimit, lastTime |-> now]

\* recalcBV without the clamp to BufLimit
recalcBV_NoClamp(peer, time) ==
    LET dt == IF time < peer.lastTime THEN 0 ELSE time - peer.lastTime
    IN  [bufValue |-> Add64(peer.bufValue, Mul64(params.MinRecharge, dt) \div fcTimeConst),
         lastTime |-> time]

\* recalcBV dividing dt by fcTimeConst before it multiplies
recalcBV_DivFirst(peer, time) ==
    LET dt == IF time < peer.lastTime THEN 0 ELSE time - peer.lastTime
        bv == Add64(peer.bufValue, Mul64(params.MinRecharge, dt \div fcTimeConst))
    IN  [bufValue |-> IF bv > params.BufLimit THEN params.BufLimit ELSE bv,
         lastTime |-> time]

\* recalcBV that keeps lastTime when the clock reading is below it
recalcBV_KeepLastTime(peer, time) ==
    LET dt == IF time < peer.lastTime THEN 0 ELSE time - peer.lastTime
        bv == Add64(peer.bufValue, Mul64(params.MinRecharge, dt) \div fcTimeConst)
    IN  [bufValue |-> IF bv > params.BufLimit THEN params.BufLimit ELSE bv,
         lastTime |-> IF time < peer.lastTime THEN peer.lastTime ELSE time]

recalcBV(peer, time) ==
    LET dt == IF time < peer.lastTime THEN 0 ELSE time - peer.lastTime
        bv == Add64(peer.bufValue, Mul64(params.MinRecharge, dt) \div fcTimeConst)
    IN  [bufValue |-> IF bv > params.BufLimit THEN params.BufLimit ELSE bv,
         lastTime |-> time]

AcceptRequest(time, ok) ==
    /\ clientNode # NoNode
    /\ clientNode' = recalcBV(clientNode, time)
    /\ last' = [op |-> "AcceptRequest", time |-> time,
                bv |-> clientNode'.bufValue, ok |-> ok]
    /\ anchor' = Observe(anchor, time, clientNode.lastTime)
    /\ UNCHANGED <<ps, delivered, calls, lock, params, serverNode, later, nQueued, orderly>>

RequestProcessedNode(peer, time, cost, rcValue) ==
    LET p1 == recalcBV(peer, time)
        p2 == [p1 EXCEPT !.bufValue = Sub64(p1.bufValue, cost)]
        p3 == recalcBV(p2, time)
        bv == Sub64(params.BufLimit, rcValue)
    IN  IF rcValue < params.BufLimit /\ bv > p3.bufValue
        THEN [p3 EXCEPT !.bufValue = bv]
        ELSE p3

RequestProcessed(time, cost, rcValue, rcost) ==
    /\ clientNode # NoNode
    /\ clientNode' = RequestProcessedNode(clientNode, time, cost, rcValue)
    /\ last' = [op |-> "RequestProcessed", time |-> time, cost |-> cost,
                rcValue |-> rcValue, bv |-> clientNode'.bufValue, realCost |-> rcost]
    /\ anchor' = [valid |-> TRUE, B |-> clientNode'.bufValue, t |-> time, mono |-> TRUE]
    /\ UNCHANGED <<ps, delivered, calls, lock, params, serverNode, later, nQueued, orderly>>

\* ------------------------------------------------------ ServerNode
NewServerNode(p, now) ==
    [bufEstimate |-> p.BufLimit, lastTime |-> now, sumCost |-> 0,
     pending |-> [id \in {} |-> 0]]

recalcBLE(peer, time) ==
    LET dt == IF time < peer.lastTime THEN 0 ELSE time - peer.lastTime
        ble == Add64(peer.bufEstimate, Mul64(params.MinRecharge, dt) \div fcTimeConst)
    IN  [peer EXCEPT !.bufEstimate = IF ble > params.BufLimit THEN params.BufLimit ELSE ble,
                     !.lastTime = time]

\* effectiveCost without the clamp of maxCost to BufLimit
effectiveCost_NoClamp(maxCost) ==
    Add64(maxCost, Mul64(safetyMargin, params.MinRecharge) \div fcTimeConst)

\* maxCost after the safety margin is added and the result clamped to BufLimit
effectiveCost(maxCost) ==
    LET mc == Add64(maxCost, Mul64(safetyMargin, params.MinRecharge) \div fcTimeConst)
    IN  IF mc > params.BufLimit THEN params.BufLimit ELSE mc

\* what canSend returns once recalcBLE has run on peer: the delay, and as
\* headroom the numerator bufEstimate - maxCost of the returned ratio; panic
\* is the run-time fault of the integer division by a zero MinRecharge
canSendResult(peer, maxCost) ==
    LET mc == effectiveCost(maxCost)
    IN  IF peer.bufEstimate >= mc
        THEN [delay |-> 0, headroom |-> peer.bufEstimate - mc, panic |-> FALSE]
        ELSE IF params.MinRecharge = 0
        THEN [delay |-> 0, headroom |-> 0, panic |-> TRUE]
        ELSE [delay |-> Duration(Mul64(Sub64(mc, peer.bufEstimate), fcTimeConst)
                                    \div params.MinRecharge),
              headroom |-> 0, panic |-> FALSE]

\* history: some u64 operation of canSend(maxCost) at clock reading time left
\* the word (in recalcBLE, in the safety margin or in the delay)
canSendWraps(peer, time, maxCost) ==
    LET dt == IF time < peer.lastTime THEN 0 ELSE time - peer.lastTime
        after == recalcBLE(peer, time)
        margin == Mul64(safetyMargin, params.MinRecharge) \div fcTimeConst
        mc == effectiveCost(maxCost)
    IN  \/ params.MinRecharge * dt > MaxUint64
        \/ peer.bufEstimate + Mul64(params.MinRecharge, dt) \div fcTimeConst > MaxUint64
        \/ safetyMargin * params.MinRecharge > MaxUint64
        \/ maxCost + margin > MaxUint64
        \/ after.bufEstimate < mc /\ (mc - after.bufEstimate) * fcTimeConst > MaxUint64

CanSend(time, maxCost) ==
    /\ serverNode # NoNode
    /\ serverNode' = recalcBLE(serverNode, time)
    /\ LET r == canSendResult(serverNode', maxCost)
       IN  last' = [op |-> "CanSend", time |-> time, maxCost |-> maxCost,
                    delay |-> r.delay, headroom |-> r.headroom, panic |-> r.panic,
                    wrapped |-> canSendWraps(serverNode, time, maxCost),
                    waited |-> /\ last.op = "CanSend"
                               /\ ~last.panic
                               /\ last.maxCost = maxCost
                               /\ last.delay > 0
                               /\ ~last.wrapped
                               /\ time = last.time + last.delay]
    /\ anchor' = Observe(anchor, time, serverNode.lastTime)
    /\ UNCHANGED <<ps, delivered, calls, lock, params, clientNode, later, nQueued, orderly>>

\* QueueRequest recording sumCost as it was before the request was added
QueueRequestNode_OldSum(peer, reqID, maxCost) ==
    [peer EXCEPT !.bufEstimate = Sub64(peer.bufEstimate, maxCost),
                 !.sumCost = Add64(peer.sumCost, maxCost),
                 !.pending = [id \in DOMAIN peer.pending \cup {reqID} |->
                                 IF id = reqID THEN peer.sumCost ELSE peer.pending[id]]]

\* QueueRequest that forgets the requests queued before
QueueRequestNode_DropOthers(peer, reqID, maxCost) ==
    LET sc == Add64(peer.sumCost, maxCost)
    IN  [peer EXCEPT !.bufEstimate = Sub64(peer.bufEstimate, maxCost),
                     !.sumCost = sc,
                     !.pending = [id \in {reqID} |-> sc]]

QueueRequestNode(peer, reqID, maxCost) ==
    LET sc == Add64(peer.sumCost, maxCost)
    IN  [peer EXCEPT !.bufEstimate = Sub64(peer.bufEstimate, maxCost),
                     !.sumCost = sc,
                     !.pending = [id \in DOMAIN peer.pending \cup {reqID} |->
                                     IF id = reqID THEN sc ELSE peer.pending[id]]]

QueueRequest(reqID, maxCost) ==
    /\ serverNode # NoNode
    /\ nQueued < MaxQueued
    /\ serverNode' = QueueRequestNode(serverNode, reqID, maxCost)
    /\ later' = [id \in DOMAIN serverNode.pending \cup {reqID} |->
                    IF id = reqID THEN 0 ELSE later[id] + maxCost]
    /\ nQueued' = nQueued + 1
    /\ last' = [op |-> "QueueRequest", reqID |-> reqID, maxCost |-> maxCost,
                underflow |-> serverNode.bufEstimate < maxCost,
                fresh |-> orderly /\ reqID \notin DOMAIN serverNode.pending,
                admitted |-> /\ last.op = "CanSend"
                             /\ ~last.panic
                             /\ last.delay = 0
                             /\ ~last.wrapped
                             /\ last.maxCost = maxCost]
    /\ anchor' = NoAnchor
    /\ orderly' = /\ orderly
                   /\ reqID \notin DOMAIN serverNode.pending
                   /\ maxCost <= serverNode.bufEstimate
    /\ UNCHANGED <<ps, delivered, calls, lock, params, clientNode>>

\* GotReply taking the reported value as it is, without the later costs
GotReplyNode_NoLater(peer, reqID, bv, time) ==
    LET b == IF bv > params.BufLimit THEN params.BufLimit ELSE bv
    IN  IF reqID \notin DOMAIN peer.pending
        THEN peer
        ELSE [peer EXCEPT !.pending = [id \in DOMAIN peer.pending \ {reqID} |->
                                          peer.pending[id]],
                          !.bufEstimate = b,
                          !.lastTime = time]

\* GotReply subtracting the later costs without the test bv > cc
GotReplyNode_NoFloor(peer, reqID, bv, time) ==
    LET b == IF bv > params.BufLimit THEN params.BufLimit ELSE bv
    IN  IF reqID \notin DOMAIN peer.pending
        THEN peer
        ELSE LET cc == Sub64(peer.sumCost, peer.pending[reqID])
             IN  [peer EXCEPT !.pending = [id \in DOMAIN peer.pending \ {reqID} |->
                                              peer.pending[id]],
                              !.bufEstimate = Sub64(b, cc),
                              !.lastTime = time]

\* GotReply taking all of sumCost, not sumCost less the snapshot, as later cost
GotReplyNode_NoSnapshot(peer, reqID, bv, time) ==
    LET b == IF bv > params.BufLimit THEN params.BufLimit ELSE bv
    IN  IF reqID \notin DOMAIN peer.pending
        THEN peer
        ELSE [peer EXCEPT !.pending = [id \in DOMAIN peer.pending \ {reqID} |->
                                          peer.pending[id]],
                          !.bufEstimate = IF b > peer.sumCost THEN b - peer.sumCost ELSE 0,
                          !.lastTime = time]

\* GotReply without the test that reqID is pending (a missing key reads as 0)
GotReplyNode_NoOkCheck(peer, reqID, bv, time) ==
    LET b == IF bv > params.BufLimit THEN params.BufLimit ELSE bv
        sc == IF reqID \in DOMAIN peer.pending THEN peer.pending[reqID] ELSE 0
        cc == Sub64(peer.sumCost, sc)
    IN  [peer EXCEPT !.pending = [id \in DOMAIN peer.pending \ {reqID} |->
                                     peer.pending[id]],
                     !.bufEstimate = IF b > cc THEN b - cc ELSE 0,
                     !.lastTime = time]

\* GotReply that leaves the answered request in pending
GotReplyNode_KeepPending(peer, reqID, bv, time) ==
    LET b == IF bv > params.BufLimit THEN params.BufLimit ELSE bv
    IN  IF reqID \notin DOMAIN peer.pending
        THEN peer
        ELSE LET cc == Sub64(peer.sumCost, peer.pending[reqID])
             IN  [peer EXCEPT !.bufEstimate = IF b > cc THEN b - cc ELSE 0,
                              !.lastTime = time]

\* GotReply that only forgets a request when requests were queued after it
GotReplyNode_NewestOnly(peer, reqID, bv, time) ==
    LET b == IF bv > params.BufLimit THEN params.BufLimit ELSE bv
    IN  IF reqID \notin DOMAIN peer.pending
        THEN peer
        ELSE IF peer.pending[reqID] # peer.sumCost
        THEN [peer EXCEPT !.pending = [id \in DOMAIN peer.pending \ {reqID} |->
                                          peer.pending[id]]]
        ELSE [peer EXCEPT !.pending = [id \in DOMAIN peer.pending \ {reqID} |->
                                          peer.pending[id]],
                          !.bufEstimate = b,
                          !.lastTime = time]

GotReplyNode(peer, reqID, bv, time) ==
    LET b == IF bv > params.BufLimit THEN params.BufLimit ELSE bv
    IN  IF reqID \notin DOMAIN peer.pending
        THEN peer
        ELSE LET cc == Sub64(peer.sumCost, peer.pending[reqID])
             IN  [peer EXCEPT !.pending = [id \in DOMAIN peer.pending \ {reqID} |->
                                              peer.pending[id]],
                              !.bufEstimate = IF b > cc THEN b - cc ELSE 0,
                              !.lastTime = time]

GotReply(reqID, bv) ==
    /\ serverNode # NoNode
    /\ IF reqID \in DOMAIN serverNode.pending
       THEN \E time \in Times :
            /\ serverNode' = GotReplyNode(serverNode, reqID, bv, time)
            /\ last' = [op |-> "GotReply", reqID |-> reqID, bv |-> bv, ok |-> TRUE,
                        time |-> time, laterCost |-> later[reqID]]
            /\ later' = [id \in DOMAIN later \ {reqID} |-> later[id]]
       ELSE /\ serverNode' = GotReplyNode(serverNode, reqID, bv, serverNode.lastTime)
            /\ last' = [op |-> "GotReply", reqID |-> reqID, bv |-> bv, ok |-> FALSE]
            /\ later' = later
    /\ UNCHANGED <<ps, delivered, calls, lock, params, clientNode, nQueued, anchor, orderly>>

\* ------------------------------------------------------ specification
Init ==
    \E bl \in BufLimits, mr \in MinRecharges, now \in Times :
        /\ params = [BufLimit |-> bl, MinRecharge |-> mr]
        /\ \/ /\ clientNode = NewClientNode(params, now)
              /\ serverNode = NoNode
           \/ /\ mr \in ServerMinRecharges
              /\ clientNode = NoNode
              /\ serverNode = NewServerNode(params, now)
        /\ last = [op |-> "New", time |-> now]
        /\ later = [id \in {} |-> 0]
        /\ nQueued = 0
        /\ orderly = TRUE
        /\ anchor = [valid |-> TRUE, B |-> bl, t |-> now, mono |-> TRUE]
        /\ calls = NoCalls
        /\ lock = Unlocked
        /\ ps = NoPeerSet
        /\ delivered = NoDelivery

Next ==
    \/ \E time \in Times, ok \in BOOLEAN : AcceptRequest(time, ok)
    \/ \E time \in Times, cost \in Costs, rcValue \in RcValues, rcost \in RealCosts :
          RequestProcessed(time, cost, rcValue, rcost)
    \/ \E time \in Times, maxCost \in Costs : CanSend(time, maxCost)
    \/ \E reqID \in ReqIDs, maxCost \in MaxCosts : QueueRequest(reqID, maxCost)
    \/ \E reqID \in ReqIDs, bv \in Bvs : GotReply(reqID, bv)

Spec == Init /\ [][Next]_vars

\* ------------------------------------------------------ round trip
\* A freshly constructed ServerNode, one QueueRequest of any cost, and replies
\* that report the full BufLimit.
RoundTripLimits == {0, 1, Word \div 2, MaxUint64}

InitRoundTrip ==
    \E bl \in RoundTripLimits, mr \in MinRecharges, now \in Times :
        /\ params = [BufLimit |-> bl, MinRecharge |-> mr]
        /\ clientNode = NoNode
        /\ serverNode = NewServerNode(params, now)
        /\ last = [op |-> "New", time |-> now]
        /\ later = [id \in {} |-> 0]
        /\ nQueued = 0
        /\ orderly = TRUE
        /\ anchor = [valid |-> TRUE, B |-> bl, t |-> now, mono |-> TRUE]
        /\ calls = NoCalls
        /\ lock = Unlocked
        /\ ps = NoPeerSet
        /\ delivered = NoDelivery

NextRoundTrip ==
    \/ \E reqID \in ReqIDs, maxCost \in 0..MaxUint64 :
          nQueued = 0 /\ QueueRequest(reqID, maxCost)
    \/ \E reqID \in ReqIDs : GotReply(reqID, params.BufLimit)

SpecRoundTrip == InitRoundTrip /\ [][NextRoundTrip]_vars

\* ------------------------------------------------------ request lifecycle
\* A ServerNode driven by a caller that issues each request id once, in
\* sequence, while replies (first, repeated or unsolicited) and CanSend calls
\* arrive in any order.
InitLifecycle ==
    \E bl \in BufLimits, mr \in ServerMinRecharges, now \in Times :
        /\ params = [BufLimit |-> bl, MinRecharge |-> mr]
        /\ clientNode = NoNode
        /\ serverNode = NewServerNode(params, now)
        /\ last = [op |-> "New", time |-> now]
        /\ later = [id \in {} |-> 0]
        /\ nQueued = 0
        /\ orderly = TRUE
        /\ anchor = [valid |-> TRUE, B |-> bl, t |-> now, mono |-> TRUE]
        /\ calls = NoCalls
        /\ lock = Unlocked
        /\ ps = NoPeerSet
        /\ delivered = NoDelivery

NextLifecycle ==
    \/ \E maxCost \in MaxCosts : nQueued + 1 \in ReqIDs /\ QueueRequest(nQueued + 1, maxCost)
    \/ \E reqID \in ReqIDs, bv \in Bvs : GotReply(reqID, bv)
    \/ \E time \in Times, maxCost \in MaxCosts : CanSend(time, maxCost)

SpecLifecycle == InitLifecycle /\ [][NextLifecycle]_vars

\* ------------------------------------------------------ recharge without debits
\* A ClientNode with a positive rate, constructed at time 0 and debited once
\* at once, and then only asked AcceptRequest, for ever, while the clock
\* advances: every call reads the clock dt > 0 units after the previous
\* reading, closely enough for MinRecharge * dt to stay inside the word.
\* The readings grow without bound; recalcBV uses only the difference time -
\* lastTime, so the state keeps lastTime modulo MaxClock + 1 (the clock's
\* origin is moved forward whenever a reading passes MaxClock).
InitRecharge ==
    \E bl \in BufLimits, mr \in MinRecharges \ {0}, cost \in Costs, rcValue \in RcValues :
        /\ params = [BufLimit |-> bl, MinRecharge |-> mr]
        /\ rcValue >= bl
        /\ clientNode = RequestProcessedNode(NewClientNode(params, 0), 0, cost, rcValue)
        /\ serverNode = NoNode
        /\ last = [op |-> "RequestProcessed", time |-> 0, cost |-> cost,
                   rcValue |-> rcValue, bv |-> clientNode.bufValue, realCost |-> 0]
        /\ later = [id \in {} |-> 0]
        /\ nQueued = 0
        /\ orderly = TRUE
        /\ anchor = [valid |-> TRUE, B |-> clientNode.bufValue, t |-> 0, mono |-> TRUE]
        /\ calls = NoCalls
        /\ lock = Unlocked
        /\ ps = NoPeerSet
        /\ delivered = NoDelivery

\* AcceptRequest reading the clock dt units after the previous reading
AcceptRequestLater(dt, ok) ==
    /\ clientNode # NoNode
    /\ LET time == clientNode.lastTime + dt
       IN  /\ clientNode' = [recalcBV(clientNode, time) EXCEPT
                                !.lastTime = time % (MaxClock + 1)]
           /\ anchor' = Observe(anchor, time, clientNode.lastTime)
    /\ last' = [op |-> "AcceptRequest", time |-> clientNode'.lastTime,
                bv |-> clientNode'.bufValue, ok |-> ok]
    /\ UNCHANGED <<ps, delivered, calls, lock, params, serverNode, later, nQueued, orderly>>

NextRecharge ==
    \E dt \in 1..MaxClock, ok \in BOOLEAN :
        /\ params.MinRecharge * dt <= MaxUint64
        /\ AcceptRequestLater(dt, ok)

\* the clock keeps advancing and the calls keep coming
SpecRecharge == InitRecharge /\ [][NextRecharge]_vars /\ WF_vars(NextRecharge)

\* ------------------------------------------------------ locks
\* sync.Mutex.Lock and sync.RWMutex.Lock proceed when nobody holds the lock
Lockable_Always(l) == TRUE

Lockable(l) == l.writer = 0 /\ l.readers = {}

\* sync.RWMutex.RLock proceeds when nobody holds the lock for writing
RLockable(l) == l.writer = 0

\* ------------------------------------------------------ ClientNode, step by step
\* AcceptRequest and RequestProcessed executed statement by statement by the
\* goroutines of Threads, each call under peer.lock.
clientLock(th, op, cost) ==
    /\ clientNode # NoNode
    /\ calls[th].pc = "idle"
    /\ Lockable(lock)
    /\ lock' = [lock EXCEPT !.writer = th]
    /\ calls' = [calls EXCEPT ![th] = [pc |-> "locked", op |-> op, cost |-> cost,
                                       entry |-> clientNode]]
    /\ UNCHANGED <<ps, delivered, params, clientNode, serverNode, history>>

\* time := mclock.Now(); peer.recalcBV(time)
clientRecalc(th, time) ==
    /\ calls[th].pc = "locked"
    /\ clientNode' = recalcBV(clientNode, time)
    /\ calls' = [calls EXCEPT ![th] = [pc |-> "recalced", op |-> @.op, cost |-> @.cost,
                                       entry |-> @.entry, time |-> time]]
    /\ UNCHANGED <<ps, delivered, params, serverNode, history, lock>>

\* return peer.bufValue, peer.cm.accept(peer.cmNode, time)
clientAccept(th, ok) ==
    /\ calls[th].pc = "recalced" /\ calls[th].op = "AcceptRequest"
    /\ calls' = [calls EXCEPT ![th] = [pc |-> "returning", op |-> @.op, cost |-> @.cost,
                                       entry |-> @.entry, time |-> @.time,
                                       bv |-> clientNode.bufValue, ok |-> ok]]
    /\ UNCHANGED <<ps, delivered, params, clientNode, serverNode, history, lock>>

\* peer.bufValue -= cost
clientDebit(th) ==
    /\ calls[th].pc = "recalced" /\ calls[th].op = "RequestProcessed"
    /\ clientNode' = [clientNode EXCEPT !.bufValue = Sub64(@, calls[th].cost)]
    /\ calls' = [calls EXCEPT ![th].pc = "debited"]
    /\ UNCHANGED <<ps, delivered, params, serverNode, history, lock>>

\* the second peer.recalcBV(time)
clientRecalc2(th) ==
    /\ calls[th].pc = "debited"
    /\ clientNode' = recalcBV(clientNode, calls[th].time)
    /\ calls' = [calls EXCEPT ![th].pc = "recalced2"]
    /\ UNCHANGED <<ps, delivered, params, serverNode, history, lock>>

\* rcValue, rcost := peer.cm.processed(...), the adjustment, and the return values
clientProcessed(th, rcValue, rcost) ==
    /\ calls[th].pc = "recalced2"
    /\ LET bv == Sub64(params.BufLimit, rcValue)
       IN  clientNode' = IF rcValue < params.BufLimit /\ bv > clientNode.bufValue
                         THEN [clientNode EXCEPT !.bufValue = bv]
                         ELSE clientNode
    /\ calls' = [calls EXCEPT ![th] = [pc |-> "returning", op |-> @.op, cost |-> @.cost,
                                       entry |-> @.entry, time |-> @.time,
                                       rcValue |-> rcValue,
                                       bv |-> clientNode'.bufValue, ok |-> TRUE]]
    /\ UNCHANGED <<ps, delivered, params, serverNode, history, lock>>

\* the deferred peer.lock.Unlock()
clientUnlock(th) ==
    /\ calls[th].pc = "returning"
    /\ lock' = [lock EXCEPT !.writer = 0]
    /\ calls' = [calls EXCEPT ![th] = [pc |-> "idle"]]
    /\ UNCHANGED <<ps, delivered, params, clientNode, serverNode, history>>

InitClientLock ==
    \E bl \in BufLimits, mr \in MinRecharges, now \in Times :
        /\ params = [BufLimit |-> bl, MinRecharge |-> mr]
        /\ clientNode = NewClientNode(params, now)
        /\ serverNode = NoNode
        /\ last = [op |-> "New", time |-> now]
        /\ later = [id \in {} |-> 0]
        /\ nQueued = 0
        /\ orderly = TRUE
        /\ anchor = [valid |-> TRUE, B |-> bl, t |-> now, mono |-> TRUE]
        /\ calls = NoCalls
        /\ lock = Unlocked
        /\ ps = NoPeerSet
        /\ delivered = NoDelivery

NextClientLock ==
    \E th \in Threads :
        \/ clientLock(th, "AcceptRequest", 0)
        \/ \E cost \in Costs : clientLock(th, "RequestProcessed", cost)
        \/ \E time \in Times : clientRecalc(th, time)
        \/ \E ok \in BOOLEAN : clientAccept(th, ok)
        \/ clientDebit(th)
        \/ clientRecalc2(th)
        \/ \E rcValue \in RcValues, rcost \in RealCosts : clientProcessed(th, rcValue, rcost)
        \/ clientUnlock(th)

SpecClientLock == InitClientLock /\ [][NextClientLock]_vars

\* ------------------------------------------------------ CanSend, step by step
\* CanSend executed statement by statement by the goroutines of Threads, each
\* call under peer.lock.RLock while canSend writes bufEstimate and lastTime
\* through recalcBLE; QueueRequest takes the write lock.
canSendRLock(th, maxCost) ==
    /\ serverNode # NoNode
    /\ nQueued > 0
    /\ calls[th].pc = "idle"
    /\ RLockable(lock)
    /\ lock' = [lock EXCEPT !.readers = @ \cup {th}]
    /\ calls' = [calls EXCEPT ![th] =
                    [pc |-> "rlocked", maxCost |-> maxCost,
                     entry |-> IF \E o \in lock.readers : TRUE
                               THEN calls[CHOOSE o \in lock.readers : TRUE].entry
                               ELSE serverNode]]
    /\ UNCHANGED <<ps, delivered, params, clientNode, serverNode, history>>

\* mclock.Now(), then dt := uint64(time - peer.lastTime), 0 when time < lastTime
canSendDt(th, time) ==
    /\ calls[th].pc = "rlocked"
    /\ calls' = [calls EXCEPT ![th] =
                    [pc |-> "timed", maxCost |-> @.maxCost, entry |-> @.entry,
                     time |-> time,
                     dt |-> IF time < serverNode.lastTime THEN 0
                            ELSE time - serverNode.lastTime]]
    /\ UNCHANGED <<ps, delivered, params, clientNode, serverNode, history, lock>>

\* peer.bufEstimate += ... : the load of bufEstimate
canSendLoad(th) ==
    /\ calls[th].pc = "timed"
    /\ calls' = [calls EXCEPT ![th] =
                    [pc |-> "loaded", maxCost |-> @.maxCost, entry |-> @.entry,
                     time |-> @.time, dt |-> @.dt, tmp |-> serverNode.bufEstimate]]
    /\ UNCHANGED <<ps, delivered, params, clientNode, serverNode, history, lock>>

\* peer.bufEstimate += ... : the store of the sum
canSendStore(th) ==
    /\ calls[th].pc = "loaded"
    /\ serverNode' = [serverNode EXCEPT !.bufEstimate =
                         Add64(calls[th].tmp,
                               Mul64(params.MinRecharge, calls[th].dt) \div fcTimeConst)]
    /\ calls' = [calls EXCEPT ![th].pc = "stored"]
    /\ UNCHANGED <<ps, delivered, params, clientNode, history, lock>>

\* if peer.bufEstimate > peer.params.BufLimit { peer.bufEstimate = BufLimit }
canSendClamp(th) ==
    /\ calls[th].pc = "stored"
    /\ serverNode' = IF serverNode.bufEstimate > params.BufLimit
                     THEN [serverNode EXCEPT !.bufEstimate = params.BufLimit]
                     ELSE serverNode
    /\ calls' = [calls EXCEPT ![th].pc = "clamped"]
    /\ UNCHANGED <<ps, delivered, params, clientNode, history, lock>>

\* peer.lastTime = time
canSendSetTime(th) ==
    /\ calls[th].pc = "clamped"
    /\ serverNode' = [serverNode EXCEPT !.lastTime = calls[th].time]
    /\ calls' = [calls EXCEPT ![th].pc = "stamped"]
    /\ UNCHANGED <<ps, delivered, params, clientNode, history, lock>>

\* the rest of canSend, its return values, and the deferred RUnlock
canSendReturn(th) ==
    /\ calls[th].pc = "stamped"
    /\ lock' = [lock EXCEPT !.readers = @ \ {th}]
    /\ calls' = [calls EXCEPT ![th] =
                    [pc |-> "returned", maxCost |-> @.maxCost, entry |-> @.entry,
                     time |-> @.time,
                     result |-> canSendResult(serverNode, calls[th].maxCost)]]
    /\ UNCHANGED <<ps, delivered, params, clientNode, serverNode, history>>

\* QueueRequest under peer.lock.Lock, before the CanSend calls start
lockedQueueRequest(reqID, maxCost) ==
    /\ Lockable(lock)
    /\ nQueued = 0
    /\ calls = NoCalls
    /\ QueueRequest(reqID, maxCost)

InitCanSendRace ==
    \E bl \in BufLimits, mr \in ServerMinRecharges \ {0}, now \in Times :
        /\ params = [BufLimit |-> bl, MinRecharge |-> mr]
        /\ clientNode = NoNode
        /\ serverNode = NewServerNode(params, now)
        /\ last = [op |-> "New", time |-> now]
        /\ later = [id \in {} |-> 0]
        /\ nQueued = 0
        /\ orderly = TRUE
        /\ anchor = [valid |-> TRUE, B |-> bl, t |-> now, mono |-> TRUE]
        /\ calls = NoCalls
        /\ lock = Unlocked
        /\ ps = NoPeerSet
        /\ delivered = NoDelivery

NextCanSendRace ==
    \/ \E reqID \in ReqIDs, maxCost \in MaxCosts : lockedQueueRequest(reqID, maxCost)
    \/ \E th \in Threads :
          \/ \E maxCost \in MaxCosts : canSendRLock(th, maxCost)
          \/ \E time \in Times : canSendDt(th, time)
          \/ canSendLoad(th)
          \/ canSendStore(th)
          \/ canSendClamp(th)
          \/ canSendSetTime(th)
          \/ canSendReturn(th)

SpecCanSendRace == InitCanSendRace /\ [][NextCanSendRace]_vars

\* ------------------------------------------------------ peerSet
\* The peerSet of the light protocol, called concurrently by the goroutines
\* of Threads.  Each method's section between ps.lock.Lock and
\* ps.lock.Unlock is one step; the calls of registerPeer / unregisterPeer it
\* makes after the Unlock are one step each.
newPeerSet == [peers |-> {}, notifyList |-> << >>, closed |-> FALSE]

SeqToSet(list) == {list[i] : i \in 1..Len(list)}

\* n.registerPeer(p) as the notifier n sees it
registerPeer(d, n, id) ==
    [d EXCEPT ![n][id] = [held |-> TRUE, early |-> @.early, twice |-> @.twice \/ @.held]]

\* n.unregisterPeer(p) as the notifier n sees it
unregisterPeer(d, n, id) ==
    [d EXCEPT ![n][id] = [held |-> FALSE, early |-> @.early \/ ~@.held, twice |-> @.twice]]

\* the locked part of Register without the test of ps.closed
RegisterLocked_NoClosedCheck(s, id) ==
    IF id \in s.peers
    THEN [ps |-> s, err |-> "errAlreadyRegistered", peers |-> << >>]
    ELSE [ps |-> [s EXCEPT !.peers = @ \cup {id}], err |-> "nil",
          peers |-> s.notifyList]

\* the locked part of Register: the peerSet it leaves, the error it will
\* return, and its copy of notifyList
RegisterLocked(s, id) ==
    IF s.closed
    THEN [ps |-> s, err |-> "errClosed", peers |-> << >>]
    ELSE IF id \in s.peers
    THEN [ps |-> s, err |-> "errAlreadyRegistered", peers |-> << >>]
    ELSE [ps |-> [s EXCEPT !.peers = @ \cup {id}], err |-> "nil",
          peers |-> s.notifyList]

\* the locked part of Unregister
UnregisterLocked(s, id) ==
    IF id \notin s.peers
    THEN [ps |-> s, err |-> "errNotRegistered", peers |-> << >>]
    ELSE [ps |-> [s EXCEPT !.peers = @ \ {id}], err |-> "nil",
          peers |-> s.notifyList]

Register(th, id) ==
    /\ ps # NoPeerSet
    /\ calls[th].pc = "idle"
    /\ LET r == RegisterLocked(ps, id)
       IN  /\ ps' = r.ps
           /\ calls' = [calls EXCEPT ![th] =
                           IF Len(r.peers) = 0 THEN [pc |-> "idle"]
                           ELSE [pc |-> "registering", id |-> id, peers |-> r.peers]]
           /\ last' = [op |-> "Register", id |-> id, err |-> r.err,
                       closed |-> ps.closed, known |-> id \in ps.peers]
    /\ UNCHANGED <<delivered, lock, params, clientNode, serverNode,
                   later, nQueued, anchor, orderly>>

\* for _, n := range peers { n.registerPeer(p) }, one notifier
RegisterNotify(th) ==
    /\ calls[th].pc = "registering"
    /\ delivered' = registerPeer(delivered, Head(calls[th].peers), calls[th].id)
    /\ calls' = [calls EXCEPT ![th] =
                    IF Len(@.peers) = 1 THEN [pc |-> "idle"]
                    ELSE [pc |-> "registering", id |-> @.id, peers |-> Tail(@.peers)]]
    /\ UNCHANGED <<ps, lock, params, clientNode, serverNode, history>>

Unregister(th, id) ==
    /\ ps # NoPeerSet
    /\ calls[th].pc = "idle"
    /\ LET r == UnregisterLocked(ps, id)
       IN  /\ ps' = r.ps
           /\ calls' = [calls EXCEPT ![th] =
                           IF Len(r.peers) = 0 THEN [pc |-> "idle"]
                           ELSE [pc |-> "unregistering", id |-> id, peers |-> r.peers]]
           /\ last' = [op |-> "Unregister", id |-> id, err |-> r.err]
    /\ UNCHANGED <<delivered, lock, params, clientNode, serverNode,
                   later, nQueued, anchor, orderly>>

\* for _, n := range peers { n.unregisterPeer(p) }, one notifier
UnregisterNotify(th) ==
    /\ calls[th].pc = "unregistering"
    /\ delivered' = unregisterPeer(delivered, Head(calls[th].peers), calls[th].id)
    /\ calls' = [calls EXCEPT ![th] =
                    IF Len(@.peers) = 1 THEN [pc |-> "idle"]
                    ELSE [pc |-> "unregistering", id |-> @.id, peers |-> Tail(@.peers)]]
    /\ UNCHANGED <<ps, lock, params, clientNode, serverNode, history>>

\* the locked part of notify: n is appended and the peers are copied; a
\* service subscribes once
notify(th, n) ==
    /\ ps # NoPeerSet
    /\ calls[th].pc = "idle"
    /\ n \notin SeqToSet(ps.notifyList)
    /\ ps' = [ps EXCEPT !.notifyList = Append(@, n)]
    /\ calls' = [calls EXCEPT ![th] =
                    IF ps.peers = {} THEN [pc |-> "idle"]
                    ELSE [pc |-> "notifying", n |-> n, peers |-> ps.peers]]
    /\ last' = [op |-> "notify", n |-> n]
    /\ UNCHANGED <<delivered, lock, params, clientNode, serverNode,
                   later, nQueued, anchor, orderly>>

\* for _, p := range peers { n.registerPeer(p) }, one peer; the copy was
\* filled by ranging over the map, in any order
notifyRegister(th, id) ==
    /\ calls[th].pc = "notifying"
    /\ id \in calls[th].peers
    /\ delivered' = registerPeer(delivered, calls[th].n, id)
    /\ calls' = [calls EXCEPT ![th] =
                    IF @.peers = {id} THEN [pc |-> "idle"]
                    ELSE [pc |-> "notifying", n |-> @.n, peers |-> @.peers \ {id}]]
    /\ UNCHANGED <<ps, lock, params, clientNode, serverNode, history>>

Close(th) ==
    /\ ps # NoPeerSet
    /\ calls[th].pc = "idle"
    /\ ~ps.closed
    /\ ps' = [ps EXCEPT !.closed = TRUE]
    /\ last' = [op |-> "Close"]
    /\ UNCHANGED <<delivered, calls, lock, params, clientNode, serverNode,
                   later, nQueued, anchor, orderly>>

InitPeerSet ==
    /\ ps = newPeerSet
    /\ delivered = NoDelivery
    /\ calls = NoCalls
    /\ lock = Unlocked
    /\ params = NoNode
    /\ clientNode = NoNode
    /\ serverNode = NoNode
    /\ last = [op |-> "New"]
    /\ later = [id \in {} |-> 0]
    /\ nQueued = 0
    /\ orderly = TRUE
    /\ anchor = NoAnchor

NextPeerSet ==
    \E th \in Threads :
        \/ \E id \in PeerIDs : Register(th, id)
        \/ RegisterNotify(th)
        \/ \E id \in PeerIDs : Unregister(th, id)
        \/ UnregisterNotify(th)
        \/ \E n \in Notifiers : notify(th, n)
        \/ \E id \in PeerIDs : notifyRegister(th, id)
        \/ Close(th)

SpecPeerSet == InitPeerSet /\ [][NextPeerSet]_vars

\* ====================================================== properties

\* the u64 credit one recharge at clock reading time adds, seen from lastTime
credit(lastTime, time) ==
    Mul64(params.MinRecharge, IF time < lastTime THEN 0 ELSE time - lastTime)
        \div fcTimeConst

\* ---- C1: after every ClientNode operation bufValue <= BufLimit, whatever
\* the costs, the clock readings and the manager's rcValue.
C1_ClientCeiling ==
    clientNode # NoNode => clientNode.bufValue <= params.BufLimit

\* a debit larger than any buffer, with rcValue > BufLimit, has completed
C1_Witness ==
    /\ clientNode # NoNode
    /\ last.op = "RequestProcessed"
    /\ last.cost > params.BufLimit
    /\ last.rcValue > params.BufLimit
    /\ clientNode.bufValue = params.BufLimit

\* ---- C2: in every reachable state of a ServerNode bufEstimate <= BufLimit
\* (the claim as stated; QueueRequest's unchecked debit wraps above BufLimit).
C2_ServerCeiling ==
    serverNode # NoNode => serverNode.bufEstimate <= params.BufLimit

\* ---- C3 as stated: after GotReply(r, bv) of a pending r, bufEstimate is
\* max(0, min(bv, BufLimit) - cc) with cc the exact sum of the max costs
\* queued after r (on histories where ids are unique while pending and no
\* QueueRequest exceeded bufEstimate).
C3_ExactSum ==
    (serverNode # NoNode /\ orderly /\ last.op = "GotReply" /\ last.ok) =>
        serverNode.bufEstimate
            = Max(0, Min(last.bv, params.BufLimit) - last.laterCost)

\* ---- C3 amended: the same with cc the sum modulo 2^64 of the max costs
\* queued after r (sumCost is a wrapping counter).
C3_ModularSum ==
    (serverNode # NoNode /\ last.op = "GotReply" /\ last.ok) =>
        serverNode.bufEstimate
            = Max(0, Min(last.bv, params.BufLimit) - (last.laterCost % Word))

\* a reply reconciled against later requests whose costs sum past the word,
\* while another request is still pending
C3_Witness ==
    /\ serverNode # NoNode
    /\ orderly
    /\ last.op = "GotReply" /\ last.ok
    /\ last.laterCost > MaxUint64
    /\ serverNode.bufEstimate > 0

\* ---- C4: for every pending request r, sumCost - pending[r] (mod 2^64) is
\* the total of the max costs queued strictly after r, and GotReply and
\* CanSend change neither sumCost nor the snapshot of another pending request.
C4_Snapshots ==
    serverNode # NoNode =>
        \A id \in DOMAIN serverNode.pending :
            Sub64(serverNode.sumCost, serverNode.pending[id]) = later[id] % Word

C4_Frame ==
    (serverNode # NoNode /\ last'.op \in {"GotReply", "CanSend"}) =>
        /\ serverNode'.sumCost = serverNode.sumCost
        /\ \A id \in DOMAIN serverNode'.pending :
              /\ id \in DOMAIN serverNode.pending
              /\ serverNode'.pending[id] = serverNode.pending[id]
        /\ \A id \in DOMAIN serverNode.pending :
              (last'.op = "GotReply" /\ id = last'.reqID) \/ id \in DOMAIN serverNode'.pending

C4_PendingSnapshot == []C4_Snapshots /\ [][C4_Frame]_vars

\* two requests pending, the older one with two later costs behind it, and
\* a CanSend has run since
C4_Witness ==
    /\ serverNode # NoNode
    /\ orderly
    /\ last.op = "CanSend"
    /\ nQueued = MaxQueued
    /\ \E id \in DOMAIN serverNode.pending : later[id] > Word \div 2
    /\ \E id \in DOMAIN serverNode.pending : later[id] = 0

\* ---- C5: when CanSend(c) has returned delay 0, the QueueRequest(id, c)
\* that follows it directly does not underflow bufEstimate (the claim as
\* stated, here for c <= BufLimit on histories where ids were unique and no
\* earlier QueueRequest exceeded bufEstimate).
C5_AdmittedNoUnderflow ==
    (/\ serverNode # NoNode
     /\ last.op = "QueueRequest" /\ last.admitted
     /\ last.maxCost <= params.BufLimit
     /\ last.fresh) =>
        ~last.underflow

\* ---- C6 as stated: after GotReply(r, bv), for every request id r,
\* bufEstimate <= bv.
C6_AnyId ==
    (serverNode # NoNode /\ last.op = "GotReply") =>
        serverNode.bufEstimate <= last.bv

\* ---- C6 amended: after GotReply(r, bv) for a pending r, bufEstimate <= bv.
C6_PendingId ==
    (serverNode # NoNode /\ last.op = "GotReply" /\ last.ok) =>
        serverNode.bufEstimate <= last.bv

\* a reply for a pending request with later requests behind it has left a
\* positive estimate below bv
C6_Witness ==
    /\ serverNode # NoNode
    /\ last.op = "GotReply" /\ last.ok
    /\ last.laterCost > 0
    /\ serverNode.bufEstimate > 0
    /\ serverNode.bufEstimate < last.bv

\* the buffer field of the tracker that is modelled
Buffer == IF clientNode # NoNode THEN clientNode.bufValue ELSE serverNode.bufEstimate
LastTime == IF clientNode # NoNode THEN clientNode.lastTime ELSE serverNode.lastTime

\* an operation that is no debit and read the clock
TimedNoDebit(l) ==
    \/ l.op \in {"AcceptRequest", "CanSend"}
    \/ l.op = "GotReply" /\ l.ok

\* parameters under which no recharge product or sum can leave the word
NoWrapParams ==
    /\ params.MinRecharge * MaxTime <= MaxUint64
    /\ params.BufLimit + (params.MinRecharge * MaxTime) \div fcTimeConst <= MaxUint64

C7_Step ==
    /\ (clientNode # NoNode /\ last'.op = "AcceptRequest"
            /\ clientNode'.bufValue < params.BufLimit) =>
          clientNode'.bufValue
              = Add64(clientNode.bufValue, credit(clientNode.lastTime, last'.time))
    /\ (serverNode # NoNode /\ last'.op = "CanSend"
            /\ serverNode'.bufEstimate < params.BufLimit) =>
          serverNode'.bufEstimate
              = Add64(serverNode.bufEstimate, credit(serverNode.lastTime, last'.time))

C8_Step ==
    (/\ last.op \in {"New", "AcceptRequest", "CanSend", "GotReply"}
     /\ last'.op \in {"AcceptRequest", "CanSend"}
     /\ last'.time >= LastTime) =>
        Buffer' >= Buffer

C8_NoDebitMonotone == [][C8_Step]_vars

\* ---- C9 as stated: no ClientNode operation lowers lastTime, whatever the
\* clock readings.
C9_Step ==
    clientNode # NoNode => clientNode'.lastTime >= clientNode.lastTime

C9_LastTimeMonotone == [][C9_Step]_vars

\* ---- C9 amended: after every ClientNode operation lastTime is the clock
\* reading that operation took (so it falls when the reading is below it).
C9_LastTimeIsReading ==
    clientNode # NoNode => clientNode.lastTime = last.time

\* lastTime stands below the reading of an earlier operation
C9_Witness ==
    /\ clientNode # NoNode
    /\ last.op \in {"AcceptRequest", "RequestProcessed"}
    /\ anchor.valid /\ ~anchor.mono
    /\ clientNode.lastTime < anchor.t

\* ---- C10: when CanSend(c) at time t returned d > 0 and the next operation
\* is CanSend(c) at time t + d, that call returns delay 0 (the claim as
\* stated, for MinRecharge > 0; here for c <= BufLimit on histories where
\* ids were unique and no QueueRequest exceeded bufEstimate).
C10_WaitSuffices ==
    (/\ serverNode # NoNode /\ orderly
     /\ last.op = "CanSend" /\ last.waited
     /\ last.maxCost <= params.BufLimit) =>
        (~last.panic /\ last.delay = 0)

\* ---- C11: CanSend returns delay 0 if and only if the recharged bufEstimate
\* is >= min(BufLimit, maxCost + safetyMargin * MinRecharge / fcTimeConst)
\* (the claim as stated, for calls that end without fault and in which no
\* u64 operation wrapped).
C11_ZeroIffCovered ==
    (serverNode # NoNode /\ last.op = "CanSend" /\ ~last.panic /\ ~last.wrapped) =>
        ((last.delay = 0) <=>
            serverNode.bufEstimate
                >= Min(params.BufLimit,
                       last.maxCost
                           + (safetyMargin * params.MinRecharge) \div fcTimeConst))

\* ---- C13: GotReply with a request id that is not pending leaves
\* bufEstimate, lastTime, sumCost and pending as they were, whatever bv is.
C13_Step ==
    (serverNode # NoNode /\ last'.op = "GotReply" /\ ~last'.ok) =>
        serverNode' = serverNode

C13_UnknownIdNoOp == [][C13_Step]_vars

\* a reply for an unknown id, with a bv below the estimate, has been ignored
\* while another request is pending
C13_Witness ==
    /\ serverNode # NoNode
    /\ last.op = "GotReply" /\ ~last.ok
    /\ DOMAIN serverNode.pending # {}
    /\ last.reqID \notin DOMAIN serverNode.pending
    /\ last.bv < serverNode.bufEstimate

\* ---- C15: RequestProcessed returns max(d, BufLimit - rcValue) when
\* rcValue < BufLimit and d otherwise, d being the buffer after the recharge
\* and the debit of cost (the claim as stated).
C15_Step ==
    (clientNode # NoNode /\ last'.op = "RequestProcessed") =>
        LET d == Sub64(recalcBV(clientNode, last'.time).bufValue, last'.cost)
        IN  last'.bv = IF last'.rcValue < params.BufLimit
                       THEN Max(d, params.BufLimit - last'.rcValue)
                       ELSE d

C15_ProcessedResult == [][C15_Step]_vars

\* ---- C16: an AcceptRequest or CanSend that reads a time below lastTime
\* leaves the buffer field as it was and sets lastTime to its reading (the
\* claim as stated, for the operations that only recharge).
C16_Step ==
    (last'.op \in {"AcceptRequest", "CanSend"} /\ last'.time < LastTime) =>
        /\ Buffer' = Buffer
        /\ LastTime' = last'.time

C16_BackwardClock == [][C16_Step]_vars

\* ---- C17: whenever the recharged bufEstimate equals BufLimit, CanSend
\* returns delay 0 (and ends without fault) for every maxCost, also for
\* maxCost > BufLimit.
C17_FullBufferAdmits ==
    (/\ serverNode # NoNode
     /\ last.op = "CanSend"
     /\ serverNode.bufEstimate = params.BufLimit) =>
        (last.delay = 0 /\ ~last.panic)

\* a CanSend of a cost above BufLimit has found the buffer full
C17_Witness ==
    /\ serverNode # NoNode
    /\ last.op = "CanSend"
    /\ last.maxCost > params.BufLimit
    /\ serverNode.bufEstimate = params.BufLimit
    /\ nQueued > 0

\* ---- C18: every operation returns normally, without a run-time fault, also
\* for MinRecharge = 0 (the claim as stated; AcceptRequest, RequestProcessed,
\* QueueRequest and GotReply hold no faulting operation, CanSend divides by
\* MinRecharge).
C18_NoFault ==
    last.op = "CanSend" => ~last.panic

\* ---- C19: when MinRecharge * dt or buffer + credit leaves the u64 range,
\* the recharged buffer is min(BufLimit, exact value) and not below the
\* buffer before (the claim as stated, for AcceptRequest and CanSend on a
\* buffer within BufLimit).
C19_Step ==
    LET dt == IF last'.time < LastTime THEN 0 ELSE last'.time - LastTime
        exact == Buffer + (params.MinRecharge * dt) \div fcTimeConst
    IN  (/\ last'.op \in {"AcceptRequest", "CanSend"}
         /\ Buffer <= params.BufLimit
         /\ \/ params.MinRecharge * dt > MaxUint64
            \/ Buffer + credit(LastTime, last'.time) > MaxUint64) =>
            /\ Buffer' = Min(params.BufLimit, exact)
            /\ Buffer' >= Buffer

C19_Saturates == [][C19_Step]_vars

\* ---- C14: on a freshly constructed ServerNode, QueueRequest(id, c) followed
\* by GotReply(id, BufLimit) leaves bufEstimate = BufLimit, for every c,
\* BufLimit and MinRecharge.
C14_RoundTrip ==
    (/\ serverNode # NoNode
     /\ nQueued = 1
     /\ last.op = "GotReply" /\ last.ok
     /\ last.bv = params.BufLimit) =>
        serverNode.bufEstimate = params.BufLimit

\* the round trip of a request that cost more than BufLimit has completed
C14_Witness ==
    /\ serverNode # NoNode
    /\ nQueued = 1
    /\ last.op = "GotReply" /\ last.ok
    /\ last.bv = params.BufLimit
    /\ serverNode.sumCost > params.BufLimit
    /\ params.BufLimit > 0
    /\ serverNode.bufEstimate = params.BufLimit

\* ---- C20: concurrent AcceptRequest and RequestProcessed calls are
\* serialized: at most one call is inside the tracker, it starts from the
\* state a completed call (or the constructor) left, every intermediate state
\* is its own, and its result and the state it leaves are those of the call
\* executed alone on the state it found.
C20_Alone(c) ==
    LET p1 == recalcBV(c.entry, c.time)
        p2 == [p1 EXCEPT !.bufValue = Sub64(p1.bufValue, c.cost)]
    IN  CASE c.pc = "locked" -> clientNode = c.entry
          [] c.pc = "recalced" -> clientNode = p1
          [] c.pc = "debited" -> clientNode = p2
          [] c.pc = "recalced2" -> clientNode = recalcBV(p2, c.time)
          [] c.pc = "returning" ->
                /\ clientNode = IF c.op = "AcceptRequest" THEN p1
                                ELSE RequestProcessedNode(c.entry, c.time, c.cost, c.rcValue)
                /\ c.bv = clientNode.bufValue
          [] OTHER -> TRUE

C20_Serialized ==
    /\ Cardinality({th \in Threads : calls[th].pc # "idle"}) <= 1
    /\ \A th \in Threads : C20_Alone(calls[th])

\* a RequestProcessed is past its debit, which wrapped, while the other
\* goroutine is idle
C20_Witness ==
    /\ clientNode # NoNode
    /\ \E th \in Threads :
          /\ calls[th].pc = "debited"
          /\ clientNode.bufValue > params.BufLimit
          /\ lock.writer = th

\* ---- C12: two CanSend calls that ran concurrently under the read lock,
\* with the same clock reading, leave the bufEstimate and lastTime and
\* return the values of those calls executed one after the other in some
\* order on the state they found.
C12_SerialOutcome(a, b) ==
    LET n1 == recalcBLE(calls[a].entry, calls[a].time)
        n2 == recalcBLE(n1, calls[b].time)
    IN  /\ serverNode = n2
        /\ calls[a].result = canSendResult(n1, calls[a].maxCost)
        /\ calls[b].result = canSendResult(n2, calls[b].maxCost)

C12_Serializable ==
    (/\ serverNode # NoNode
     /\ \A th \in Threads : calls[th].pc = "returned"
     /\ \A a, b \in Threads : /\ calls[a].entry = calls[b].entry
                              /\ calls[a].time = calls[b].time
                              /\ calls[a].time >= calls[a].entry.lastTime)
    => \E a, b \in Threads : a # b /\ C12_SerialOutcome(a, b)

\* ---- C21: in RequestProcessed the second recalcBV, run at the same clock
\* reading right after the debit, leaves bufValue as the debit left it.
C21_Step ==
    \A th \in Threads :
        (calls[th].pc = "debited" /\ calls'[th].pc = "recalced2")
        => clientNode'.bufValue = clientNode.bufValue

C21_SecondRecalcNoOp == [][C21_Step]_vars

\* ---- C22: QueueRequest(reqID, maxCost) sets bufEstimate to bufEstimate -
\* maxCost and sumCost to sumCost + maxCost, both modulo the word, records
\* the new sumCost under reqID, and leaves lastTime and every other pending
\* entry as they were (no recharge is applied).
C22_Step ==
    (serverNode # NoNode /\ last'.op = "QueueRequest") =>
        /\ serverNode'.bufEstimate = (serverNode.bufEstimate - last'.maxCost) % Word
        /\ serverNode'.sumCost = (serverNode.sumCost + last'.maxCost) % Word
        /\ serverNode'.pending[last'.reqID] = serverNode'.sumCost
        /\ serverNode'.lastTime = serverNode.lastTime
        /\ DOMAIN serverNode'.pending = DOMAIN serverNode.pending \cup {last'.reqID}
        /\ \A id \in DOMAIN serverNode.pending \ {last'.reqID} :
              serverNode'.pending[id] = serverNode.pending[id]

C22_QueueFrame == [][C22_Step]_vars

\* a QueueRequest whose debit wrapped, made while another request was pending
C22_Witness ==
    /\ serverNode # NoNode
    /\ last.op = "QueueRequest"
    /\ last.underflow
    /\ \E id \in DOMAIN serverNode.pending : id # last.reqID
    /\ serverNode.bufEstimate > params.BufLimit

\* ---- C23: a request id enters pending with its QueueRequest and leaves it
\* with the first GotReply carrying that id and with no other call (CanSend,
\* QueueRequest, GotReply of another id), so an unanswered request stays
\* pending; a GotReply for an id that is not pending (a second reply) changes
\* nothing, so each queued request is reconciled at most once.
C23_Step ==
    serverNode # NoNode =>
        /\ last'.op = "QueueRequest" => last'.reqID \in DOMAIN serverNode'.pending
        /\ \A id \in DOMAIN serverNode.pending \ DOMAIN serverNode'.pending :
              last'.op = "GotReply" /\ last'.reqID = id /\ last'.ok
        /\ \A id \in DOMAIN serverNode'.pending \ DOMAIN serverNode.pending :
              last'.op = "QueueRequest" /\ last'.reqID = id
        /\ (last'.op = "GotReply" /\ last'.reqID \in DOMAIN serverNode.pending)
              => last'.ok /\ last'.reqID \notin DOMAIN serverNode'.pending
        /\ (last'.op = "GotReply" /\ last'.reqID \notin DOMAIN serverNode.pending)
              => ~last'.ok /\ serverNode' = serverNode

C23_Lifecycle == [][C23_Step]_vars

\* both requests were queued, one was answered and has now been answered again
\* to no effect at a lower value, while the other is still pending
C23_Witness ==
    /\ serverNode # NoNode
    /\ nQueued = 2
    /\ last.op = "GotReply" /\ ~last.ok
    /\ last.reqID \in 1..nQueued
    /\ \E id \in 1..nQueued : id # last.reqID /\ DOMAIN serverNode.pending = {id}
    /\ last.bv < serverNode.bufEstimate

\* ---- C25: when the manager grants no credit (rcValue >= BufLimit), the
\* value RequestProcessed(cost) returns is at most the value AcceptRequest
\* would have returned at the same clock reading, whatever the cost.
C25_DebitNeverRaises ==
    \A th \in Threads :
        (/\ clientNode # NoNode
         /\ calls[th].pc = "returning"
         /\ calls[th].op = "RequestProcessed"
         /\ calls[th].rcValue >= params.BufLimit)
        => calls[th].bv <= recalcBV(calls[th].entry, calls[th].time).bufValue

\* ---- C26: at every clock reading, the recharged bufEstimate canSend works
\* with right after QueueRequest is at most the one it would have worked
\* with right before, so canSend reports no shorter delay and no more
\* headroom after queuing than before.
C26_Step ==
    (serverNode # NoNode /\ last'.op = "QueueRequest") =>
        \A time \in Times :
            LET before == recalcBLE(serverNode, time)
                after == recalcBLE(serverNode', time)
            IN  /\ after.bufEstimate <= before.bufEstimate
                /\ params.MinRecharge > 0 =>
                      \A maxCost \in MaxCosts :
                          /\ canSendResult(after, maxCost).delay
                                >= canSendResult(before, maxCost).delay
                          /\ canSendResult(after, maxCost).headroom
                                <= canSendResult(before, maxCost).headroom

C26_QueueNeverImproves == [][C26_Step]_vars

\* ---- C27: with a positive MinRecharge, no debits and an advancing clock,
\* the buffer eventually reaches BufLimit however closely the AcceptRequest
\* calls follow one another.
C27_EventuallyFull == <>(clientNode # NoNode /\ clientNode.bufValue = params.BufLimit)

\* ---- C28: requests 1 and then 2 were queued and the reply to 2 has been
\* processed; the reply to 1, arriving after it, is the step looked at.
C28_StaleReply ==
    /\ serverNode # NoNode
    /\ nQueued = 2
    /\ DOMAIN serverNode.pending = {1}
    /\ last'.op = "GotReply" /\ last'.reqID = 1

\* C28 as claimed: the late reply to the earlier request leaves the
\* bufEstimate derived from the reply to the later request in place.
C28_FresherWins == [][C28_StaleReply => serverNode'.bufEstimate = serverNode.bufEstimate]_vars

\* C28 amended: the reply processed last decides; the late reply to request 1
\* sets bufEstimate to its value (clamped to BufLimit) less the cost queued
\* after request 1, or to 0, and lastTime to the clock reading.
C28_Step ==
    C28_StaleReply =>
        LET b == Min(last'.bv, params.BufLimit)
            cc == (serverNode.sumCost - serverNode.pending[1]) % Word
        IN  /\ last'.ok
            /\ serverNode'.bufEstimate = IF b > cc THEN b - cc ELSE 0
            /\ serverNode'.lastTime = last'.time
            /\ serverNode'.pending = << >>

C28_LastReplyWins == [][C28_Step]_vars

\* both replies processed, the one to request 1 last, and it lowered the
\* estimate that the reply to request 2 and the recharge since had left
C28_Witness ==
    /\ serverNode # NoNode
    /\ nQueued = 2
    /\ DOMAIN serverNode.pending = {}
    /\ last.op = "GotReply" /\ last.ok /\ last.reqID = 1
    /\ last.laterCost > 0
    /\ serverNode.bufEstimate < Min(last.bv, params.BufLimit)

\* ---- C24: a Register whose locked part runs after Close returns errClosed
\* and adds no peer, so the set of peers never grows once the set is closed
\* (and it stays closed); before Close, Register of an id already in the set
\* returns errAlreadyRegistered and leaves the set unchanged.
C24_RegisterStep ==
    /\ last'.op = "Register"
    /\ \A th \in Threads : calls[th].pc = "idle" \/ calls'[th] = calls[th]

C24_Step ==
    ps # NoPeerSet =>
        /\ ps.closed => ps'.closed /\ ps'.peers \subseteq ps.peers
        /\ (C24_RegisterStep /\ ps.closed)
              => last'.err = "errClosed" /\ ps' = ps
        /\ (C24_RegisterStep /\ ~ps.closed /\ last'.id \in ps.peers)
              => last'.err = "errAlreadyRegistered" /\ ps' = ps

C24_Closing == [][C24_Step]_vars

\* a Register of a peer that is not in the set was refused after Close
C24_Witness ==
    /\ ps # NoPeerSet
    /\ ps.closed
    /\ last.op = "Register" /\ last.err = "errClosed" /\ last.closed
    /\ ~last.known /\ last.id \notin ps.peers
    /\ ps.peers # {}

\* ---- C29: under every interleaving of notify, Register and Unregister, no
\* notifier is told registerPeer(p) for a peer it already holds, none is told
\* unregisterPeer(p) for a peer it does not hold, and once no call is in
\* progress a subscribed notifier holds exactly the peers of the set, so none
\* is left holding an unregistered peer.
C29_NotifyOrder ==
    ps # NoPeerSet =>
        \A n \in Notifiers, id \in PeerIDs :
            /\ ~delivered[n][id].twice
            /\ ~delivered[n][id].early
            /\ (calls = NoCalls /\ n \in SeqToSet(ps.notifyList))
                  => (delivered[n][id].held <=> id \in ps.peers)

====
